---- MODULE Spec2Model ----
(***************************************************************************)
(* Form_Builder: the Form-Assistant graph of engine/form_chat.py.          *)
(* One assistant turn is run_form_assist: it builds initial_state, runs    *)
(* the nodes of build_form_assistant one at a time, and returns a result   *)
(* dict.  The completion service is an opaque source of text: every call   *)
(* picks its reply (or a ServiceError) from a small set.                   *)
(***************************************************************************)
EXTENDS Integers, Sequences, FiniteSets, TLC

\* ------------------------------------------------------------------ bounds
MaxHist == 1

\* ------------------------------------------------------ values and inputs
FormIds == {"form_a", "form_b"}
UserInputs == {"rename the form", "yes"}
SessionArgs == {"None", "s1"}
\* QuestionItem.question_type, the keys of QUESTION_TYPES
QuestionTypes ==
    {"date", "time", "duration", "email", "short_text", "text_area_long",
     "multiple_choice_dropdown_menu", "dropdown_single_option",
     "multiple_option", "single_option", "slider_rating", "upload_document"}

StepOne ==
    [step_name |-> "Step 1",
     step_questions |->
        <<[question_text |-> "Name", question_type |-> "short_text"]>>]

StepTwo ==
    [step_name |-> "Step 2",
     step_questions |->
        <<[question_text |-> "Rating", question_type |-> "slider_rating"]>>]

\* form content: {form_title, description, steps: [...]}
FormOf(steps) == [shape |-> "form", steps |-> steps]

NoContent == [shape |-> "none", steps |-> <<>>]

InitialContent == FormOf(<<StepOne, StepTwo>>)

\* the contents a replacement document can carry
Contents == {InitialContent, FormOf(<<StepTwo, StepOne>>)}

NoForm ==
    [shape |-> "absent", form_id |-> "none", form_content |-> NoContent]
JsonValues ==
    [shape : {"object", "other"}, form_id : FormIds, form_content : Contents]

\* text handed to json.loads: either garbage or the encoding of a JSON value
JsonTexts ==
    [decodes : {TRUE}, value : JsonValues]
        \cup {[decodes |-> FALSE, value |-> NoForm]}

ServiceError == "ServiceError"
NotFound == "NotFound"
AttributeErr == "AttributeError"

Intents == {"edit", "suggest_questions", "unclear"}
ParseFailReason == "Failed to parse intent"
NoAnalysis == [intent |-> "none", reason |-> "none"]
\* replies of the completion service to the intent prompt
AnalyzerRaw ==
    [wellformed : BOOLEAN,
     intent : Intents \cup {"delete"},
     reason : {"model reason"}]

\* replies are sequences of one-character strings
Yes == <<"y", "e", "s">>
ConfirmRaw ==
    { <<"y", "e", "s">>,
      <<" ", "Y", "e", "s", "\n">>,
      <<"Y", "E", "S">>,
      <<"y", "e", "s", ".">>,
      <<"n", "o">>,
      <<"N", "o", " ">>,
      <<>> }

EditMessages == {"", "edit summary"}
QuestionLists == {<<>>, <<"q1">>}
RawReplies == {"reply", " reply\n"}

OldMessages == [role : {"user", "assistant"}, content : {"old"}]
Histories == UNION {[1..n -> OldMessages] : n \in 0..MaxHist}

InitialForms ==
    [shape : {"object"}, form_id : {"form_a"},
     form_content : {InitialContent}]

\* ------------------------------------------------------- pure functions
IsSpace(c) == c \in {" ", "\n"}

RECURSIVE LStrip(_)
LStrip(s) ==
    IF s = <<>> THEN <<>>
    ELSE IF IsSpace(Head(s)) THEN LStrip(Tail(s)) ELSE s

RECURSIVE RStrip(_)
RStrip(s) ==
    IF s = <<>> THEN <<>>
    ELSE IF IsSpace(s[Len(s)]) THEN RStrip(SubSeq(s, 1, Len(s) - 1)) ELSE s

\* str.strip()
Strip(s) == RStrip(LStrip(s))

LowerChar(c) ==
    CASE c = "Y" -> "y"
      [] c = "E" -> "e"
      [] c = "S" -> "s"
      [] c = "N" -> "n"
      [] c = "O" -> "o"
      [] OTHER -> c

\* str.lower()
Lower(s) == [i \in 1..Len(s) |-> LowerChar(s[i])]

\* result.content.strip() on the replies of the response prompt
StripReply(r) == IF r = " reply\n" THEN "reply" ELSE r

\* PydanticOutputParser(InputAnalysis).parse: raises unless the text is a
\* JSON object whose intent is one of the Literal values
IntentParses(raw) == raw.wellformed /\ raw.intent \in Intents

ParsedAnalysis(raw) == [intent |-> raw.intent, reason |-> raw.reason]

UnclearAnalysis == [intent |-> "unclear", reason |-> ParseFailReason]

\* bool(x) / truthiness of a str
Truthy(str) == str # ""

Apology(e) ==
    "I apologize, but I encountered an error: " \o e \o ". Please try again."

ErrorContent(e) == "Error: " \o e

\* session_id defaulting, run_form_assist
SessionOf(session_arg, form_id) ==
    IF session_arg = "None" THEN "session_" \o form_id ELSE session_arg

\* ------------------------------------------------ the generation pipeline
Generators == {"generate_description", "generate_steps", "generate_questions"}
Evaluators == {"evaluate_description", "evaluate_steps", "evaluate_questions"}
GenTasks == Generators \cup Evaluators \cup {"generate_final_form"}

\* the keys of State
StateKeys ==
    {"user_prompt", "form_description", "form_steps", "step_questions",
     "final_form"}

\* prompt texts, as their characters
Prompts == {<<"f", "o", "r", "m">>, <<" ", "\n">>}
Grades == {"acceptable", "unacceptable"}
Timestamps == {"02_11_2026: 10:00"}

\* the text of each generation call
GeneratedText ==
    [generate_description |-> "description text",
     generate_steps |-> "steps text",
     generate_questions |-> "questions text"]

\* a step whose question type is outside QuestionItem.question_type
StepBad ==
    [step_name |-> "Step 1",
     step_questions |->
        <<[question_text |-> "Score", question_type |-> "rating"]>>]

\* the JSON values an aggregation output can encode
OtherJson(shape) == [shape |-> shape, steps |-> <<>>]

JsonBodies ==
    [form |-> InitialContent,
     form_no_steps |-> FormOf(<<>>),
     form_bad_type |-> FormOf(<<StepBad>>),
     other_object |-> OtherJson("other_object"),
     empty_object |-> OtherJson("empty_object"),
     empty_list |-> OtherJson("empty_list")]

EmptyString == OtherJson("empty_string")

\* the code-fence markers, three backquotes with and without json
OpenFence == "fence json"
CloseFence == "fence"

\* completion text of generate_final_form, as its pieces in order
FinalTexts ==
    {<<>>, <<OpenFence, CloseFence>>, <<"not json">>,
     <<OpenFence, "not json", CloseFence>>}
        \cup {<<body>> : body \in DOMAIN JsonBodies}
        \cup {<<OpenFence, body, CloseFence>> : body \in DOMAIN JsonBodies}

\* what the completion service answers during one request
Responses ==
    [grades : [Evaluators -> Grades],
     final : FinalTexts,
     raises : GenTasks \cup {"none"}]

NoResponses ==
    [grades |-> [e \in Evaluators |-> "acceptable"], final |-> <<>>,
     raises |-> "none"]

\* State with every key absent
NoState ==
    [user_prompt |-> <<>>, form_description |-> "", form_steps |-> "",
     step_questions |-> "", final_form |-> <<>>]

NoFinalInput ==
    [user_prompt |-> <<>>, form_description |-> "", form_steps |-> "",
     step_questions |-> ""]

\* no generation request is running
NoGen ==
    [phase |-> "idle", prompt |-> <<>>, resp |-> NoResponses, state |-> NoState,
     step |-> {}, done |-> {}, pending |-> <<>>, ran |-> <<>>,
     final_input |-> NoFinalInput, result |-> EmptyString, exc |-> "",
     written |-> 0, saved |-> "none"]

\* ------------------------------------------ run_agent_form and its caller
\* variant: generate_steps also leads straight to generate_final_form
Edges_Shortcut ==
    {<<"START", "generate_description">>, <<"START", "generate_steps">>,
     <<"START", "generate_questions">>,
     <<"generate_description", "evaluate_description">>,
     <<"generate_steps", "evaluate_steps">>,
     <<"generate_questions", "evaluate_questions">>,
     <<"generate_steps", "generate_final_form">>,
     <<"evaluate_description", "generate_final_form">>,
     <<"evaluate_steps", "generate_final_form">>,
     <<"evaluate_questions", "generate_final_form">>,
     <<"generate_final_form", "END">>}

\* agent_flow_form
Edges ==
    {<<"START", "generate_description">>, <<"START", "generate_steps">>,
     <<"START", "generate_questions">>,
     <<"generate_description", "evaluate_description">>,
     <<"generate_steps", "evaluate_steps">>,
     <<"generate_questions", "evaluate_questions">>,
     <<"evaluate_description", "generate_final_form">>,
     <<"evaluate_steps", "generate_final_form">>,
     <<"evaluate_questions", "generate_final_form">>,
     <<"generate_final_form", "END">>}

\* the tasks of the superstep after the one in which the tasks of done ran
NextTasks(done) ==
    {e[2] : e \in {d \in Edges : d[1] \in done}} \cap GenTasks

\* variant: generate_steps writes the description field
GeneratorField_Shared(task) ==
    CASE task = "generate_description" -> "form_description"
      [] task = "generate_steps" -> "form_description"
      [] task = "generate_questions" -> "step_questions"

\* the State key a generation node returns
GeneratorField(task) ==
    CASE task = "generate_description" -> "form_description"
      [] task = "generate_steps" -> "form_steps"
      [] task = "generate_questions" -> "step_questions"

\* the State key an evaluation node reads as content
EvaluatedField(task) ==
    CASE task = "evaluate_description" -> "form_description"
      [] task = "evaluate_steps" -> "form_steps"
      [] task = "evaluate_questions" -> "step_questions"

\* the generation nodes: {<key>: generate_<x>(state["user_prompt"])}
GeneratorOutput(task, st) ==
    [k \in {GeneratorField(task)} |-> GeneratedText[task]]

\* variant: an unacceptable grade replaces the evaluated content
EvaluatorOutput_Rewrites(task, st, grade) ==
    IF grade = "unacceptable"
    THEN [k \in {EvaluatedField(task)} |-> "revised text"]
    ELSE [k \in {"grade", "feedback"} |->
            IF k = "grade" THEN grade ELSE "feedback text"]

\* evaluate_generated_output: {"grade": ..., "feedback": ...}
EvaluatorOutput(task, st, grade) ==
    [k \in {"grade", "feedback"} |->
        IF k = "grade" THEN grade ELSE "feedback text"]

\* generate_final_form: what the prompt is built from
FinalInput(st) ==
    [user_prompt |-> st.user_prompt,
     form_description |-> st.form_description,
     form_steps |-> st.form_steps,
     step_questions |-> st.step_questions]

\* generate_final_form: {"final_form": final_result.content}
FinalOutput(content) == [k \in {"final_form"} |-> content]

\* the part of a node's return value that reaches State
StateUpdate(output) ==
    [k \in DOMAIN output \cap StateKeys |-> output[k]]

\* the writes of one superstep, collected
Merge(pending, update) ==
    [k \in DOMAIN pending \cup DOMAIN update |->
        IF k \in DOMAIN update THEN update[k] ELSE pending[k]]

\* the writes of a superstep applied when its last task has finished
ApplyWrites(st, pending) ==
    [k \in DOMAIN st |-> IF k \in DOMAIN pending THEN pending[k] ELSE st[k]]

\* convert_json: both fence markers replaced by the empty string
StripFences(text) ==
    LET Kept(piece) == piece \notin {OpenFence, CloseFence}
    IN  SelectSeq(text, Kept)

\* json.loads accepts the text
Loads(text) == Len(text) = 1 /\ text[1] \in DOMAIN JsonBodies

\* json.loads
JsonLoads(text) == JsonBodies[text[1]]

\* bool(final_form) of a str
TextTruthy(text) == text # <<>>

\* run_agent_form: convert_json is called
Converts(text) == TextTruthy(text)

\* run_agent_form raises after the graph returned
ConvertRaises(text) == Converts(text) /\ ~ Loads(StripFences(text))

\* run_agent_form: the value returned
ConvertResult(text) ==
    IF Converts(text) THEN JsonLoads(StripFences(text)) ELSE EmptyString

\* bool(result) in handle_generate_form
ResultTruthy(value) ==
    value.shape \notin {"empty_string", "empty_object", "empty_list"}

\* save_form_response: save_data
SavedDocument(form_id, created_at, form_response) ==
    [shape |-> "object", form_id |-> form_id, created_at |-> created_at,
     form_content |-> form_response]

\* ------------------------------------------------------------ the page
\* nothing selected, nothing rendered
NoSession ==
    [form_result |-> NoForm, form_loaded_name |-> <<>>, phase |-> "idle",
     widgets |-> <<>>, shown |-> <<>>, saved_step |-> 0, choices |-> <<>>,
     before |-> NoForm, saves |-> 0]

\* no answers file
NoAnswers == [exists |-> FALSE, rows |-> <<>>, recent |-> {}]

\* no helper call
NoCall ==
    [fn |-> "none", arg |-> [isstr |-> FALSE, chars |-> <<>>], ret |-> <<>>]

\* no writer running
NoRace == [phase |-> "idle"]

\* ------------------------------------------------------------------ state
VARIABLES
    store,      \* Form Store: form_id -> persisted Form Document
    pc,         \* position of the turn: the node that runs next
    state,      \* FormAssistantState of the running turn
    args,       \* arguments of the running run_form_assist call
    exc,        \* message of the exception that left graph.invoke, or ""
    result,     \* dict returned by the last run_form_assist call
    trace,      \* nodes that ran in this turn, in order
    failed,     \* nodes whose completion call raised in this turn
    heard,      \* node -> text its completion call returned in this turn
    tmpl,       \* response template used by llm_response in this turn
    store0,     \* Form Store at the start of this turn
    writes,     \* Form Store writes made in this turn
    last,       \* session fields the previous turn left behind
    reads,      \* Form Store reads made in this turn
    gen,        \* the generation request: run_agent_form and its caller
    session,    \* the page: st.session_state and what the last run rendered
    answers,    \* the answers file of the selected form, as written
    call,       \* one call of a helper: its argument and what it returned
    race        \* writers of one document running side by side

vars == <<store, pc, state, args, exc, result, trace, failed, heard, tmpl,
          store0, writes, last, reads, gen, session, answers, call, race>>

\* state that no node of the assistant graph touches
outside == <<gen, session, answers, call, race>>

\* state of the page outside the generation request
page == <<session, answers, call, race>>

NoArgs ==
    [user_input |-> "", form_id |-> "none", session_id |-> "none",
     messages |-> <<>>]

EmptyState ==
    [form |-> NoForm,
     form_id |-> "none",
     user_input |-> "",
     messages |-> <<>>,
     analysis |-> NoAnalysis,
     suggested_edit_message |-> "",
     suggested_questions |-> <<>>,
     needs_confirmation |-> FALSE,
     confirmation_checked |-> FALSE,
     confirm_edit |-> FALSE,
     form_already_edited |-> FALSE,
     errors |-> <<>>]

NoResult ==
    [answer |-> "", new_history |-> <<>>, session_id |-> "none",
     form_updated |-> FALSE, errors |-> <<>>]

\* the Assistant Session State fields of a FormAssistantState
SessionFields(st) ==
    [analysis |-> st.analysis,
     suggested_edit_message |-> st.suggested_edit_message,
     suggested_questions |-> st.suggested_questions,
     needs_confirmation |-> st.needs_confirmation,
     confirmation_checked |-> st.confirmation_checked,
     confirm_edit |-> st.confirm_edit,
     form_already_edited |-> st.form_already_edited]

NoLast ==
    [form_id |-> "none", session_id |-> "none",
     fields |-> SessionFields(EmptyState)]

Init ==
    /\ store \in [{"form_a"} -> InitialForms]
    /\ pc = "idle"
    /\ state = EmptyState
    /\ args = NoArgs
    /\ exc = ""
    /\ result = NoResult
    /\ trace = <<>>
    /\ failed = {}
    /\ heard = <<>>
    /\ tmpl = "none"
    /\ store0 = store
    /\ writes = 0
    /\ last = NoLast
    /\ reads = 0
    /\ gen = NoGen
    /\ session = NoSession
    /\ answers = NoAnswers
    /\ call = NoCall
    /\ race = NoRace

\* the completion call of the node returned text
Hears(node, text) ==
    /\ heard' = (node :> text) @@ heard
    /\ failed' = failed

\* the completion call of the node raised ServiceError
Fails(node) ==
    /\ heard' = heard
    /\ failed' = failed \cup {node}

\* variant: the node logs the exception and the graph goes on to respond
Raise_Swallowed(node, e) ==
    /\ pc' = IF node = "llm_response" THEN "raised" ELSE "llm_response"
    /\ exc' = IF node = "llm_response" THEN e ELSE exc
    /\ trace' = Append(trace, node)

\* an exception leaves the node and graph.invoke
Raise(node, e) ==
    /\ pc' = "raised"
    /\ exc' = e
    /\ trace' = Append(trace, node)

\* the node returns and the graph moves to the next node
Goto(node, next) ==
    /\ pc' = next
    /\ exc' = exc
    /\ trace' = Append(trace, node)

\* ------------------------------------------------------------ operations
\* run_form_assist up to graph.invoke: initial_state of a fresh graph
\* (the graph is compiled without a checkpointer)
InitialState(user_input, form_id, messages) ==
    [EmptyState EXCEPT !.user_input = user_input,
                       !.form_id = form_id,
                       !.messages = messages]

StartTurn ==
    /\ pc = "idle"
    /\ \E user_input \in UserInputs, form_id \in FormIds,
          session_arg \in SessionArgs, messages \in Histories :
        /\ args' = [user_input |-> user_input, form_id |-> form_id,
                    session_id |-> SessionOf(session_arg, form_id),
                    messages |-> messages]
        /\ state' = InitialState(user_input, form_id, messages)
    /\ pc' = "get_form_context"
    /\ exc' = ""
    /\ trace' = <<>>
    /\ failed' = {}
    /\ heard' = <<>>
    /\ tmpl' = "none"
    /\ store0' = store
    /\ writes' = 0
    /\ result' = NoResult
    /\ reads' = 0
    /\ UNCHANGED <<store, last,
                   outside>>

\* context_extractor
GetFormContext ==
    /\ pc = "get_form_context"
    /\ reads' = reads + 1
    /\ IF state.form_id \in DOMAIN store
       THEN /\ state' = [state EXCEPT !.form = store[state.form_id]]
            /\ Goto("get_form_context", "input_analyzer")
       ELSE /\ state' = state
            /\ Raise("get_form_context", NotFound)
    /\ UNCHANGED <<store, args, result, failed, heard, tmpl, store0, writes,
                   last,
                   outside>>

\* variant: an unclear intent is sent back to reload the form context
AfterAnalyzer_Reload(analysis) ==
    IF analysis.intent = "edit" THEN "edit_suggester"
    ELSE IF analysis.intent = "unclear" THEN "get_form_context"
    ELSE "question_suggester"

\* conditional edge after input_analyzer
AfterAnalyzer(analysis) ==
    IF analysis.intent = "edit" THEN "edit_suggester" ELSE "question_suggester"

\* variant: the reply is decoded as JSON but not validated against the schema
AnalyzerResult_Unvalidated(raw) ==
    IF raw.wellformed THEN ParsedAnalysis(raw) ELSE UnclearAnalysis

AnalyzerResult(raw) ==
    IF IntentParses(raw) THEN ParsedAnalysis(raw) ELSE UnclearAnalysis

\* input_analyzer
InputAnalyzer ==
    /\ pc = "input_analyzer"
    /\ \/ \E raw \in AnalyzerRaw :
            /\ state' = [state EXCEPT !.analysis = AnalyzerResult(raw)]
            /\ Hears("input_analyzer", raw)
       \/ /\ state' = [state EXCEPT !.analysis = UnclearAnalysis]
          /\ Fails("input_analyzer")
    /\ Goto("input_analyzer", AfterAnalyzer(state'.analysis))
    /\ UNCHANGED <<store, args, result, tmpl, store0, writes, last,
                   reads, outside>>

\* variant: the suggestion is sent back for another intent analysis
AfterSuggester_Reanalyze(st) ==
    IF st.needs_confirmation /\ st.suggested_edit_message = ""
    THEN "input_analyzer"
    ELSE "confirmation_handler"

\* conditional edge after edit_suggester
AfterSuggester(st) ==
    IF st.needs_confirmation THEN "confirmation_handler" ELSE "llm_response"

\* edit_suggester
EditSuggester ==
    /\ pc = "edit_suggester"
    /\ \/ \E content \in EditMessages :
            /\ state' = [state EXCEPT !.suggested_edit_message = content,
                                      !.needs_confirmation = TRUE]
            /\ Hears("edit_suggester", content)
            /\ Goto("edit_suggester", AfterSuggester(state'))
       \/ /\ state' = state
          /\ Fails("edit_suggester")
          /\ Raise("edit_suggester", ServiceError)
    /\ UNCHANGED <<store, args, result, tmpl, store0, writes, last,
                   reads, outside>>

\* question_suggester
QuestionSuggester ==
    /\ pc = "question_suggester"
    /\ \/ \E questions \in QuestionLists :
            /\ state' = [state EXCEPT !.suggested_questions = questions]
            /\ Hears("question_suggester", questions)
       \/ /\ state' = [state EXCEPT !.suggested_questions = <<>>]
          /\ Fails("question_suggester")
    /\ Goto("question_suggester", "llm_response")
    /\ UNCHANGED <<store, args, result, tmpl, store0, writes, last,
                   reads, outside>>

\* intent = result.content.strip().lower()
ConfirmIntent(content) == Lower(Strip(content))

\* variant: intent.startswith("yes")
ConfirmEdit_StartsWith(content) ==
    /\ Len(ConfirmIntent(content)) >= 3
    /\ SubSeq(ConfirmIntent(content), 1, 3) = Yes

ConfirmEdit(content) == ConfirmIntent(content) = Yes

\* variant: the edge applies the edit whatever the reply
AfterConfirmation_Always(st) == "form_editor"

\* conditional edge after confirmation_handler
AfterConfirmation(st) ==
    IF st.confirm_edit THEN "form_editor" ELSE "llm_response"

\* confirmation_handler
ConfirmationHandler ==
    /\ pc = "confirmation_handler"
    /\ \/ \E content \in ConfirmRaw :
            /\ state' = [state EXCEPT !.confirm_edit = ConfirmEdit(content),
                                      !.confirmation_checked = TRUE]
            /\ Hears("confirmation_handler", content)
            /\ Goto("confirmation_handler", AfterConfirmation(state'))
       \/ /\ state' = state
          /\ Fails("confirmation_handler")
          /\ Raise("confirmation_handler", ServiceError)
    /\ UNCHANGED <<store, args, result, tmpl, store0, writes, last,
                   reads, outside>>

\* json.loads succeeds
Decodes(text) == text.decodes

\* form_editor, try body after the completion call returned text
EditedState(st, text) ==
    IF Decodes(text)
    THEN [st EXCEPT !.form = text.value, !.form_already_edited = TRUE]
    ELSE st

\* variant: a file that exists is left as it is
WriteJson_KeepExisting(st, form_id, document) ==
    [id \in DOMAIN st \cup {form_id} |->
        IF id \in DOMAIN st THEN st[id] ELSE document]

\* write_json(file_path, state["form"])
WriteJson(st, form_id, document) ==
    [id \in DOMAIN st \cup {form_id} |->
        IF id = form_id THEN document ELSE st[id]]

\* variant: the file is written before the text is decoded
EditedStore_Unchecked(st, form_id, text) ==
    WriteJson(st, form_id, text.value)

EditedStore(st, form_id, text) ==
    IF Decodes(text) THEN WriteJson(st, form_id, text.value) ELSE st

EditWrites(text) == IF Decodes(text) THEN 1 ELSE 0

\* form_editor
FormEditor ==
    /\ pc = "form_editor"
    /\ \/ \E text \in JsonTexts :
            /\ state' = EditedState(state, text)
            /\ store' = EditedStore(store, state.form_id, text)
            /\ writes' = writes + EditWrites(text)
            /\ Hears("form_editor", text)
       \/ /\ state' = state
          /\ store' = store
          /\ writes' = writes
          /\ Fails("form_editor")
    /\ Goto("form_editor", "llm_response")
    /\ UNCHANGED <<args, result, tmpl, store0, last,
                   reads, outside>>

\* confirmation_needed, llm_response_generator
ConfirmationNeeded(st) ==
    ~st.confirmation_checked /\ st.needs_confirmation

\* variant: the confirmation branch is tested first
Template_ConfirmFirst(st) ==
    IF Truthy(st.suggested_edit_message) /\ ConfirmationNeeded(st)
    THEN "confirm"
    ELSE IF st.form_already_edited THEN "edited" ELSE "chat"

\* prompt selection, llm_response_generator
Template(st) ==
    IF st.form_already_edited THEN "edited"
    ELSE IF Truthy(st.suggested_edit_message) /\ ConfirmationNeeded(st)
         THEN "confirm"
         ELSE "chat"

\* flag resets of the selected branch
AfterTemplate(st) ==
    CASE Template(st) = "edited" ->
            [st EXCEPT !.form_already_edited = FALSE]
      [] Template(st) = "confirm" ->
            [st EXCEPT !.confirmation_checked = FALSE,
                       !.needs_confirmation = FALSE]
      [] OTHER -> st

AssistantMessage(content) == [role |-> "assistant", content |-> content]
UserMessage(content) == [role |-> "user", content |-> content]

\* state.get("form", {}).get("form_content", {}) needs a dict
FormReadable(st) == st.form.shape = "object"

\* variant: the reducer is handed the reply alone and puts it first
MergedMessages_Prepend(before, reply, aliased) == <<reply>> \o before

\* the messages channel after the node appended reply in place to the list
\* it was handed and returned that list through the add_messages reducer.
\* The appended dict has no id: when the channel's own list is the one the
\* node mutated (aliased), the reducer converts it once on each side, gives
\* the two messages different ids and keeps both.
MergedMessages(before, reply, aliased) ==
    IF aliased THEN before \o <<reply, reply>> ELSE before \o <<reply>>

\* llm_response_generator
LlmResponse ==
    /\ pc = "llm_response"
    /\ IF ~FormReadable(state)
       THEN /\ state' = state
            /\ tmpl' = tmpl
            /\ UNCHANGED <<failed, heard>>
            /\ Raise("llm_response", AttributeErr)
       ELSE /\ tmpl' = Template(state)
            /\ \/ \E content \in RawReplies, aliased \in BOOLEAN :
                    /\ state' = [AfterTemplate(state) EXCEPT !.messages =
                          MergedMessages(@,
                              AssistantMessage(StripReply(content)), aliased)]
                    /\ Hears("llm_response", content)
                    /\ Goto("llm_response", "finished")
               \/ /\ state' = AfterTemplate(state)
                  /\ Fails("llm_response")
                  /\ Raise("llm_response", ServiceError)
    /\ UNCHANGED <<store, args, result, store0, writes, last,
                   reads, outside>>

\* run_form_assist, the return after graph.invoke
OkResult(st, a) ==
    [answer |-> st.messages[Len(st.messages)].content,
     new_history |-> <<UserMessage(a.user_input),
                       AssistantMessage(st.messages[Len(st.messages)].content)>>,
     session_id |-> a.session_id,
     form_updated |-> st.form_already_edited,
     errors |-> st.errors]

\* variant: the except branch builds new_history like the normal return
ErrorResult_ShortHistory(a, e) ==
    [answer |-> Apology(e),
     new_history |-> <<UserMessage(a.user_input),
                       AssistantMessage(ErrorContent(e))>>,
     session_id |-> a.session_id,
     form_updated |-> FALSE,
     errors |-> <<e>>]

\* run_form_assist, the except branch
ErrorResult(a, e) ==
    [answer |-> Apology(e),
     new_history |-> a.messages \o <<UserMessage(a.user_input),
                                     AssistantMessage(ErrorContent(e))>>,
     session_id |-> a.session_id,
     form_updated |-> FALSE,
     errors |-> <<e>>]

Left(st, a) ==
    [form_id |-> a.form_id, session_id |-> a.session_id,
     fields |-> SessionFields(st)]

ReturnOk ==
    /\ pc = "finished"
    /\ result' = OkResult(state, args)
    /\ last' = Left(state, args)
    /\ pc' = "idle"
    /\ UNCHANGED <<store, state, args, exc, trace, failed, heard, tmpl,
                   store0, writes,
                   reads, outside>>

ReturnError ==
    /\ pc = "raised"
    /\ result' = ErrorResult(args, exc)
    /\ last' = Left(state, args)
    /\ pc' = "idle"
    /\ UNCHANGED <<store, state, args, exc, trace, failed, heard, tmpl,
                   store0, writes,
                   reads, outside>>

Next ==
    \/ StartTurn
    \/ GetFormContext
    \/ InputAnalyzer
    \/ EditSuggester
    \/ QuestionSuggester
    \/ ConfirmationHandler
    \/ FormEditor
    \/ LlmResponse
    \/ ReturnOk
    \/ ReturnError

Spec == Init /\ [][Next]_vars

\* the steps of a running turn: graph.invoke is a synchronous call whose
\* nodes return or raise, and run_form_assist then returns
TurnStep ==
    \/ GetFormContext
    \/ InputAnalyzer
    \/ EditSuggester
    \/ QuestionSuggester
    \/ ConfirmationHandler
    \/ FormEditor
    \/ LlmResponse
    \/ ReturnOk
    \/ ReturnError

\* one turn, started on any document a form_editor write can have left
InitTurn ==
    /\ store \in [{"form_a"} -> JsonValues]
    /\ pc = "idle"
    /\ state = EmptyState
    /\ args = NoArgs
    /\ exc = ""
    /\ result = NoResult
    /\ trace = <<>>
    /\ failed = {}
    /\ heard = <<>>
    /\ tmpl = "none"
    /\ store0 = store
    /\ writes = 0
    /\ last = NoLast
    /\ reads = 0
    /\ gen = NoGen
    /\ session = NoSession
    /\ answers = NoAnswers
    /\ call = NoCall
    /\ race = NoRace

FirstTurn == last = NoLast /\ StartTurn

NextTurn == FirstTurn \/ TurnStep

SpecTurn == InitTurn /\ [][NextTurn]_vars /\ WF_vars(TurnStep)

TypeOK ==
    /\ pc \in {"idle", "get_form_context", "input_analyzer", "edit_suggester",
               "question_suggester", "confirmation_handler", "form_editor",
               "llm_response", "finished", "raised"}
    /\ DOMAIN store \subseteq FormIds
    /\ writes \in 0..1

\* ------------------------------------- llm_response_generator on its own
\* every FormAssistantState the response node can be handed
ResponseStates ==
    { [EmptyState EXCEPT !.form = f,
                         !.form_id = "form_a",
                         !.user_input = "yes",
                         !.suggested_edit_message = m,
                         !.needs_confirmation = n,
                         !.confirmation_checked = c,
                         !.confirm_edit = c,
                         !.form_already_edited = e] :
        f \in [shape : {"object", "other"}, form_id : {"form_a"},
               form_content : {InitialContent}],
        m \in EditMessages, n \in BOOLEAN, c \in BOOLEAN, e \in BOOLEAN }

InitResponse ==
    /\ store \in [{"form_a"} -> InitialForms]
    /\ pc = "llm_response"
    /\ state \in ResponseStates
    /\ args = [user_input |-> "yes", form_id |-> "form_a",
               session_id |-> "s1", messages |-> <<>>]
    /\ exc = ""
    /\ result = NoResult
    /\ trace = <<>>
    /\ failed = {}
    /\ heard = <<>>
    /\ tmpl = "none"
    /\ store0 = store
    /\ writes = 0
    /\ last = NoLast
    /\ reads = 0
    /\ gen = NoGen
    /\ session = NoSession
    /\ answers = NoAnswers
    /\ call = NoCall
    /\ race = NoRace

NextResponse ==
    \/ LlmResponse
    \/ ReturnOk
    \/ ReturnError

SpecResponse == InitResponse /\ [][NextResponse]_vars

\* ----------------------------------------------- handle_generate_form
JsonDecodeError == "JSONDecodeError"

\* the variables of the assistant turn
assistant ==
    <<pc, state, args, exc, result, trace, failed, heard, tmpl, store0,
      writes, last, reads>>

\* handle_generate_form up to agent_form.invoke({"user_prompt": user_input})
StartGenerate ==
    /\ pc = "idle"
    /\ gen.phase = "idle"
    /\ \E prompt \in Prompts :
         IF Strip(prompt) = <<>>
         THEN gen' = [gen EXCEPT !.phase = "stopped", !.prompt = prompt]
         ELSE \E resp \in Responses :
                gen' = [gen EXCEPT !.phase = "running",
                                   !.prompt = prompt,
                                   !.resp = resp,
                                   !.state = [NoState EXCEPT
                                                 !.user_prompt = prompt],
                                   !.step = NextTasks({"START"})]
    /\ UNCHANGED <<store, assistant, page>>

\* the completion call of a task raised: invoke raises
Aborted(g, task) ==
    [g EXCEPT !.phase = "raised", !.exc = ServiceError,
              !.ran = Append(@, task)]

\* a task returned output; the last task of a superstep applies the
\* writes and schedules the successors
Finished(g, task, output) ==
    LET pending == Merge(g.pending, StateUpdate(output))
        done == g.done \cup {task}
        next == NextTasks(g.step)
    IN  IF done = g.step
        THEN [g EXCEPT !.ran = Append(@, task),
                       !.state = ApplyWrites(@, pending),
                       !.pending = <<>>,
                       !.done = {},
                       !.step = next,
                       !.phase = IF next = {} THEN "invoked" ELSE "running"]
        ELSE [g EXCEPT !.ran = Append(@, task),
                       !.pending = pending,
                       !.done = done]

Runnable(task) ==
    /\ gen.phase = "running"
    /\ task \in gen.step \ gen.done

\* generate_description, generate_steps, generate_questions
RunGenerator(task) ==
    /\ task \in Generators
    /\ Runnable(task)
    /\ gen' = IF gen.resp.raises = task
              THEN Aborted(gen, task)
              ELSE Finished(gen, task, GeneratorOutput(task, gen.state))
    /\ UNCHANGED <<store, assistant, page>>

\* evaluate_description, evaluate_steps, evaluate_questions
RunEvaluator(task) ==
    /\ task \in Evaluators
    /\ Runnable(task)
    /\ gen' = IF gen.resp.raises = task
              THEN Aborted(gen, task)
              ELSE Finished(gen, task,
                            EvaluatorOutput(task, gen.state,
                                            gen.resp.grades[task]))
    /\ UNCHANGED <<store, assistant, page>>

\* generate_final_form
GenerateFinalForm ==
    /\ Runnable("generate_final_form")
    /\ gen' = IF gen.resp.raises = "generate_final_form"
              THEN [Aborted(gen, "generate_final_form") EXCEPT
                       !.final_input = FinalInput(gen.state)]
              ELSE [Finished(gen, "generate_final_form",
                             FinalOutput(gen.resp.final)) EXCEPT
                       !.final_input = FinalInput(gen.state)]
    /\ UNCHANGED <<store, assistant, page>>

\* run_agent_form after invoke returned
ReturnForm ==
    /\ gen.phase = "invoked"
    /\ gen' = IF ConvertRaises(gen.state.final_form)
              THEN [gen EXCEPT !.phase = "raised", !.exc = JsonDecodeError]
              ELSE [gen EXCEPT !.phase = "returned",
                               !.result = ConvertResult(gen.state.final_form)]
    /\ UNCHANGED <<store, assistant, page>>

\* handle_generate_form, except branch
ReportFailure ==
    /\ gen.phase = "raised"
    /\ gen' = [gen EXCEPT !.phase = "failed"]
    /\ UNCHANGED <<store, assistant, page>>

\* handle_generate_form: if result
Saves(value) == ResultTruthy(value)

\* handle_generate_form after run_agent_form returned; save_form_response
\* names the file after a fresh uuid
SaveForm ==
    /\ gen.phase = "returned"
    /\ IF Saves(gen.result)
       THEN \E form_id \in FormIds \ DOMAIN store, created_at \in Timestamps :
              /\ store' = WriteJson(store, form_id,
                                    SavedDocument(form_id, created_at,
                                                  gen.result))
              /\ gen' = [gen EXCEPT !.phase = "saved",
                                    !.written = @ + 1,
                                    !.saved = form_id]
       ELSE /\ store' = store
            /\ gen' = [gen EXCEPT !.phase = "shown"]
    /\ UNCHANGED <<assistant, page>>

NextGen ==
    \/ StartGenerate
    \/ \E task \in Generators : RunGenerator(task)
    \/ \E task \in Evaluators : RunEvaluator(task)
    \/ GenerateFinalForm
    \/ ReturnForm
    \/ ReportFailure
    \/ SaveForm

SpecGen == Init /\ [][NextGen]_vars

\* ------------------------------------------------ parse_list_type_example
MaxText == 4

\* characters of the example texts
TextChars == {"A", "n", " ", ",", "/", "\\", "\n"}

\* the example of the docstring and of the editor's help
DocExample == <<"A", ",", " ", "B", ";", " ", "C", "/", "D", "\n", "E">>

\* a backslash and the letter n between two options
EscapedExample == <<"A", "\\", "n", "B">>

Texts == UNION {[1..n -> TextChars] : n \in 0..MaxText}

\* arguments: a str, or a value that is not a str
ListArgs ==
    [isstr : {TRUE}, chars : Texts \cup {DocExample, EscapedExample}]
        \cup {[isstr |-> FALSE, chars |-> <<>>]}

\* re.split(r'[\n,;/\\]+', ...)
ListDelims == {"\n", ",", ";", "/", "\\"}

RECURSIVE ReplaceEscaped(_)
\* example_text.replace("\\n", "\n")
ReplaceEscaped(s) ==
    IF s = <<>> THEN <<>>
    ELSE IF Len(s) >= 2 /\ s[1] = "\\" /\ s[2] = "n"
         THEN <<"\n">> \o ReplaceEscaped(SubSeq(s, 3, Len(s)))
         ELSE <<s[1]>> \o ReplaceEscaped(Tail(s))

RECURSIVE SplitFrom(_, _, _, _)
\* re.split on runs of separators: the pieces between the runs, the
\* empty piece before a leading and after a trailing run included
SplitFrom(s, seps, piece, inrun) ==
    IF s = <<>> THEN <<piece>>
    ELSE IF s[1] \in seps
         THEN IF inrun
              THEN SplitFrom(Tail(s), seps, piece, TRUE)
              ELSE <<piece>> \o SplitFrom(Tail(s), seps, <<>>, TRUE)
         ELSE SplitFrom(Tail(s), seps, Append(piece, s[1]), FALSE)

SplitRuns(s, seps) == SplitFrom(s, seps, <<>>, FALSE)

\* variant: the pieces are kept as they are cut
Options_Untrimmed(pieces) ==
    SelectSeq(pieces, LAMBDA p : Strip(p) # <<>>)

\* [opt.strip() for opt in ... if opt.strip()]
Options(pieces) ==
    SelectSeq([i \in 1..Len(pieces) |-> Strip(pieces[i])],
              LAMBDA p : p # <<>>)

\* parse_list_type_example
ParseListTypeExample(arg) ==
    IF ~ arg.isstr THEN <<>>
    ELSE Options(SplitRuns(ReplaceEscaped(arg.chars), ListDelims))

CallParse ==
    /\ call.fn = "none"
    /\ \E arg \in ListArgs :
          call' = [fn |-> "parse_list_type_example", arg |-> arg,
                   ret |-> ParseListTypeExample(arg)]
    /\ UNCHANGED <<store, assistant, gen, session, answers, race>>

NextParse == CallParse

SpecParse == Init /\ [][NextParse]_vars

\* --------------------------------------------------- render_slider_rating
MaxExample == 4

\* characters of the example strings
ExampleChars == {"1", "5", "a", "-", " ", ","}

\* the examples of the warning text and of the documentation
DocRanges ==
    {<<"1", "-", "5">>, <<"3">>, <<"a", "b", "c">>, <<"1", "-", "1", "0">>}

Examples == UNION {[1..n -> ExampleChars] : n \in 0..MaxExample}

\* question_example as render_slider_rating receives it: a str, or the
\* list of options render_question_input made of it
StrExample(chars) == [isstr |-> TRUE, chars |-> chars, items |-> <<>>]
ListExample(items) == [isstr |-> FALSE, chars |-> <<>>, items |-> items]

\* re.split(r"[,\s\-]+", ...)
SliderSeps == {",", " ", "\n", "-"}

Digits == {"0", "1", "2", "3", "4", "5", "6", "7", "8", "9"}

DigitValue(c) ==
    CASE c = "0" -> 0 [] c = "1" -> 1 [] c = "2" -> 2 [] c = "3" -> 3
      [] c = "4" -> 4 [] c = "5" -> 5 [] c = "6" -> 6 [] c = "7" -> 7
      [] c = "8" -> 8 [] c = "9" -> 9

\* int(token) does not raise
IsInt(token) ==
    token # <<>> /\ \A k \in 1..Len(token) : token[k] \in Digits

RECURSIVE ToInt(_)
\* int(token)
ToInt(token) ==
    IF token = <<>> THEN 0
    ELSE 10 * ToInt(SubSeq(token, 1, Len(token) - 1))
            + DigitValue(token[Len(token)])

\* variant: the example is split as it is given
SliderParts_Unstripped(chars) == SplitRuns(chars, SliderSeps)

\* re.split(..., question_example.strip())
SliderParts(chars) == SplitRuns(Strip(chars), SliderSeps)

\* the fallback of the except branch and of the empty example
DefaultRange(warned) == [min |-> 1, max |-> 5, warned |-> warned]

\* bool(question_example)
ExampleTruthy(example) ==
    IF example.isstr THEN example.chars # <<>> ELSE example.items # <<>>

\* render_slider_rating, the range it passes to st.slider
SliderRange(example) ==
    IF ~ ExampleTruthy(example) THEN DefaultRange(FALSE)
    ELSE IF ~ example.isstr THEN DefaultRange(TRUE)
    ELSE LET parts == SliderParts(example.chars)
         IN  IF ~ IsInt(parts[1]) THEN DefaultRange(TRUE)
             ELSE IF Len(parts) > 1
                  THEN IF IsInt(parts[2])
                       THEN [min |-> ToInt(parts[1]),
                             max |-> ToInt(parts[2]), warned |-> FALSE]
                       ELSE DefaultRange(TRUE)
                  ELSE [min |-> ToInt(parts[1]),
                        max |-> ToInt(parts[1]) + 9, warned |-> FALSE]

CallSlider ==
    /\ call.fn = "none"
    /\ \E chars \in Examples \cup DocRanges :
          call' = [fn |-> "render_slider_rating", arg |-> StrExample(chars),
                   ret |-> SliderRange(StrExample(chars))]
    /\ UNCHANGED <<store, assistant, gen, session, answers, race>>

NextSlider == CallSlider

SpecSlider == Init /\ [][NextSlider]_vars

\* --------------------------------------------------- the page's documents
\* QUESTION_TYPES of setup.py: key -> label, in the order of the dict
TypeKeys ==
    <<"short_text", "text_area_long", "email",
      "multiple_choice_dropdown_menu", "dropdown_single_option",
      "multiple_option", "single_option", "date", "time", "duration",
      "slider_rating", "upload_document">>

TypeLabels ==
    <<"Simple Text", "Text Area", "Email", "Drop-Down with Multiple Option",
      "Drop-Down with Single Option", "Multiple Option", "Single Option",
      "Date", "Time", "Duration", "Rating", "Upload Document">>

\* question_type.lower().strip(), on the types stored in PageSteps
LowerStripType(type) ==
    CASE type = "DATE" -> "date"
      [] OTHER -> type

\* question.get(key, default)
Get(question, key, default) ==
    IF key \in DOMAIN question THEN question[key] ELSE default

RangeExample == <<"1", "-", "1", "0">>
ChoiceExample == <<"A", ",", " ", "B">>

\* a question with all four keys
Question(text, type, example) ==
    [question_text |-> text, question_type |-> type,
     question_description |-> <<>>, question_example |-> example]

StepSlider ==
    [step_name |-> "Step 1", step_description |-> "about the visit",
     step_questions |->
        <<Question("Score", "slider_rating", RangeExample),
          Question("Colour", "single_option", ChoiceExample)>>]

StepUpper ==
    [step_name |-> "Step 2", step_description |-> "about the day",
     step_questions |-> <<Question("Day", "DATE", <<>>)>>]

PageSteps == {StepBad, StepSlider, StepUpper}

\* form_content with the keys the page reads
PageContent(steps) ==
    [shape |-> "form", form_title |-> "Survey", description |-> "a survey",
     steps |-> steps]

\* the most steps a stored form has
MaxSteps == 2

\* the most Save Step presses of one session
MaxSaves == 2

\* the documents the page finds in data/form_builder
PageForms ==
    {SavedDocument("form_a", "02_11_2026: 10:00", PageContent(steps)) :
        steps \in UNION {[1..n -> PageSteps] : n \in 1..MaxSteps}}

\* ------------------------------------------------------- the preview tab
\* RENDERERS of render_question_input
Renderers ==
    [short_text |-> "render_short_text",
     text_area_long |-> "render_text_area_long",
     date |-> "render_date_input",
     time |-> "render_time_input",
     duration |-> "render_duration",
     email |-> "render_email_input",
     multiple_choice_dropdown_menu |-> "render_multiselect",
     dropdown_single_option |-> "render_selectbox",
     multiple_option |-> "render_multiselect",
     single_option |-> "render_radio",
     slider_rating |-> "render_slider_rating",
     upload_document |-> "render_upload_document"]

NoRange == [min |-> 0, max |-> 0, warned |-> FALSE]

\* what render_question_input passes as fourth argument
SliderArgument(example, options) == ListExample(options)

\* render_question_input: the widget it creates, or the warning
RenderQuestionInput(question) ==
    LET question_text == Get(question, "question_text", "Untitled")
        question_type ==
            LowerStripType(Get(question, "question_type", "Unknown"))
        question_description == Get(question, "question_description", <<>>)
        question_example ==
            Get(question, "question_example", question_description)
        options ==
            ParseListTypeExample([isstr |-> TRUE, chars |-> question_example])
    IN  IF question_type \in DOMAIN Renderers
        THEN [kind |-> Renderers[question_type],
              label |-> question_text,
              options |-> options,
              range |-> IF question_type = "slider_rating"
                        THEN SliderRange(SliderArgument(question_example,
                                                        options))
                        ELSE NoRange,
              warning |-> "none"]
        ELSE [kind |-> "none", label |-> question_text, options |-> options,
              range |-> NoRange, warning |-> "Unsupported input type"]

StepsOf(form_result) == form_result.form_content.steps

\* render_form_preview_tab: one entry per step and question
Preview(form_result) ==
    [i \in 1..Len(StepsOf(form_result)) |->
        [j \in 1..Len(StepsOf(form_result)[i].step_questions) |->
            RenderQuestionInput(StepsOf(form_result)[i].step_questions[j])]]

\* ------------------------------------------------------ the Form Details tab
IsTypeKey(key) == \E n \in 1..Len(TypeKeys) : TypeKeys[n] = key

IndexOf(seq, x) == CHOOSE n \in 1..Len(seq) : seq[n] = x

\* QUESTION_TYPES.get(current_type_key, type_labels[0])
CurrentLabel(question) ==
    LET key == Get(question, "question_type", TypeKeys[1])
    IN  IF IsTypeKey(key) THEN TypeLabels[IndexOf(TypeKeys, key)]
        ELSE TypeLabels[1]

\* the labels the selectboxes of the editor show
Shown(form_result) ==
    [i \in 1..Len(StepsOf(form_result)) |->
        [j \in 1..Len(StepsOf(form_result)[i].step_questions) |->
            CurrentLabel(StepsOf(form_result)[i].step_questions[j])]]

\* what the user did to the widgets of one question
EditChoices == [text : {"keep", "type"}, type : {"keep", "pick"}]

\* the keys compared with q_type before the example is reformatted
ListTypeKeys ==
    {"single_option", "multiple_option", "dropdown_single_option",
     "multiple_choice_dropdown_menu", "slider_rating"}

RECURSIVE JoinOptions(_)
\* " / ".join(options)
JoinOptions(options) ==
    IF options = <<>> THEN <<>>
    ELSE IF Len(options) = 1 THEN options[1]
    ELSE options[1] \o <<" ", "/", " ">> \o JoinOptions(Tail(options))

\* parsed_example: q_type is the label the selectbox returned
ParsedExample(q_type, q_example) ==
    IF q_type \in ListTypeKeys
    THEN JoinOptions(ParseListTypeExample([isstr |-> TRUE,
                                           chars |-> q_example]))
    ELSE q_example

\* one entry of edited_questions
EditedQuestion(question, choice) ==
    LET q_text == IF choice.text = "type" THEN "edited text"
                  ELSE Get(question, "question_text", "")
        q_type == IF choice.type = "pick" THEN "Email"
                  ELSE CurrentLabel(question)
        q_desc == Get(question, "question_description", <<>>)
        q_example == Get(question, "question_example", <<>>)
    IN  [question_text |-> q_text,
         question_type |-> TypeKeys[IndexOf(TypeLabels, q_type)],
         question_description |-> q_desc,
         question_example |-> ParsedExample(q_type, q_example)]

\* variant: the edited questions replace those of the first step
SavedSteps_First(steps, step_idx, edited_questions) ==
    [steps EXCEPT ![1].step_questions = edited_questions]

\* form_content["steps"][step_idx]["step_questions"] = edited_questions
SavedSteps(steps, step_idx, edited_questions) ==
    [steps EXCEPT ![step_idx].step_questions = edited_questions]

\* write_json_form: the path written, as its components
FinalPath(path) ==
    IF Len(path) >= 2 /\ path[1] = "data" /\ path[2] = "form_builder"
    THEN path
    ELSE <<"data", "form_builder">> \o path

\* the document a path of the form directory names
FileOf(path) == path[Len(path)]

\* ------------------------------------------------------------- main_page
InitPage ==
    /\ store \in [{"form_a"} -> PageForms]
    /\ pc = "idle"
    /\ state = EmptyState
    /\ args = NoArgs
    /\ exc = ""
    /\ result = NoResult
    /\ trace = <<>>
    /\ failed = {}
    /\ heard = <<>>
    /\ tmpl = "none"
    /\ store0 = store
    /\ writes = 0
    /\ last = NoLast
    /\ reads = 0
    /\ gen = NoGen
    /\ session = NoSession
    /\ answers = NoAnswers
    /\ call = NoCall
    /\ race = NoRace

\* load_form_content: the selected file, read again by every run
Loaded(path) == store[FileOf(<<"data", "form_builder">> \o path)]

\* one run of the script without a pressed button: the selected form is
\* loaded, the editor and the preview are drawn
RunPage ==
    /\ \E file \in DOMAIN store :
         LET form_result == Loaded(<<file>>)
         IN  session' = [form_result |-> form_result,
                         form_loaded_name |-> <<file>>,
                         phase |-> "shown",
                         widgets |-> Preview(form_result),
                         shown |-> Shown(form_result),
                         saved_step |-> 0,
                         choices |-> <<>>,
                         before |-> store[file],
                         saves |-> session.saves]
    /\ UNCHANGED <<store, assistant, gen, answers, call, race>>

\* the document Save Step writes
SavedForm(form_result, step_idx, choices) ==
    LET steps == StepsOf(form_result)
        edited_questions ==
            [j \in 1..Len(steps[step_idx].step_questions) |->
                EditedQuestion(steps[step_idx].step_questions[j], choices[j])]
    IN  [form_result EXCEPT !.form_content.steps =
            SavedSteps(steps, step_idx, edited_questions)]

\* the run in which the Save Step button of step step_idx, drawn by the
\* run before, is pressed
SaveStep(step_idx) ==
    /\ session.phase \in {"shown", "saved"}
    /\ session.saves < MaxSaves
    /\ LET form_result == Loaded(session.form_loaded_name)
           final_path == FinalPath(session.form_loaded_name)
       IN  /\ step_idx \in 1..Len(StepsOf(session.form_result))
           /\ step_idx \in 1..Len(StepsOf(form_result))
           /\ \E choices \in
                 [1..Len(StepsOf(form_result)[step_idx].step_questions)
                     -> EditChoices] :
                 LET saved == SavedForm(form_result, step_idx, choices)
                 IN  /\ store' = WriteJson(store, FileOf(final_path), saved)
                     /\ session' = [session EXCEPT
                                       !.form_result = saved,
                                       !.phase = "saved",
                                       !.widgets = Preview(saved),
                                       !.shown = Shown(form_result),
                                       !.saved_step = step_idx,
                                       !.choices = choices,
                                       !.saves = @ + 1,
                                       !.before = store[FileOf(final_path)]]
    /\ UNCHANGED <<assistant, gen, answers, call, race>>

NextPage ==
    \/ RunPage
    \/ \E step_idx \in 1..MaxSteps : SaveStep(step_idx)

SpecPage == InitPage /\ [][NextPage]_vars

\* ------------------------------------------- writers of the same document
\* two assistant turns and one editor session, all on form_a
Turns == {"turn_a", "turn_b"}
Writers == Turns \cup {"editor"}

\* the changes the form_editor completion applies to the form it was given
Edits == {"retitle", "redescribe"}

Edited(document, edit) ==
    CASE edit = "retitle" ->
            [document EXCEPT !.form_content.form_title = "Renamed"]
      [] edit = "redescribe" ->
            [document EXCEPT !.form_content.description = "Rewritten"]

\* every writer before its read; log: the writes in the order they landed
StartRace ==
    [phase |-> "racing",
     at |-> [w \in Writers |-> "idle"],
     seen |-> [w \in Writers |-> NoForm],
     log |-> <<>>]

InitRace ==
    /\ store \in [{"form_a"} -> PageForms]
    /\ pc = "idle"
    /\ state = EmptyState
    /\ args = NoArgs
    /\ exc = ""
    /\ result = NoResult
    /\ trace = <<>>
    /\ failed = {}
    /\ heard = <<>>
    /\ tmpl = "none"
    /\ store0 = store
    /\ writes = 0
    /\ last = NoLast
    /\ reads = 0
    /\ gen = NoGen
    /\ session = NoSession
    /\ answers = NoAnswers
    /\ call = NoCall
    /\ race = StartRace

Landed(writer, document) ==
    [race EXCEPT !.at[writer] = "written",
                 !.log = Append(@, [writer |-> writer,
                                    seen |-> race.seen[writer],
                                    document |-> document])]

\* context_extractor: state['form'] = read_json(path)
TurnRead(turn) ==
    /\ race.phase = "racing"
    /\ race.at[turn] = "idle"
    /\ race' = [race EXCEPT !.at[turn] = "read",
                            !.seen[turn] = store["form_a"]]
    /\ UNCHANGED <<store, assistant, gen, session, answers, call>>

\* form_editor: the completion's form, made from state['form'], is written
TurnWrite(turn) ==
    /\ race.phase = "racing"
    /\ race.at[turn] = "read"
    /\ \E edit \in Edits :
          LET document == Edited(race.seen[turn], edit)
          IN  /\ store' = WriteJson(store, "form_a", document)
              /\ race' = Landed(turn, document)
    /\ UNCHANGED <<assistant, gen, session, answers, call>>

\* main_page: the run of the editor session loads the selected file
EditorLoad ==
    /\ race.phase = "racing"
    /\ race.at["editor"] = "idle"
    /\ race' = [race EXCEPT !.at["editor"] = "read",
                            !.seen["editor"] = Loaded(<<"form_a">>)]
    /\ UNCHANGED <<store, assistant, gen, session, answers, call>>

\* display_editable_form, later in that run: Save Step writes the form
\* the run loaded
EditorSave(step_idx) ==
    /\ race.phase = "racing"
    /\ race.at["editor"] = "read"
    /\ step_idx \in 1..Len(StepsOf(race.seen["editor"]))
    /\ \E choices \in
          [1..Len(StepsOf(race.seen["editor"])[step_idx].step_questions)
              -> EditChoices] :
          LET document == SavedForm(race.seen["editor"], step_idx, choices)
          IN  /\ store' = WriteJson(store,
                                    FileOf(FinalPath(<<"form_a">>)), document)
              /\ race' = Landed("editor", document)
    /\ UNCHANGED <<assistant, gen, session, answers, call>>

NextRace ==
    \/ \E turn \in Turns : TurnRead(turn)
    \/ \E turn \in Turns : TurnWrite(turn)
    \/ EditorLoad
    \/ \E step_idx \in 1..MaxSteps : EditorSave(step_idx)

SpecRace == InitRace /\ [][NextRace]_vars

\* ------------------------------------------------------- the answers file
\* the columns of the answers file; the first four are the key
Columns == {"submit_id", "form_name", "step_name", "question", "answer"}
KeyColumns == {"submit_id", "form_name", "step_name", "question"}

SubmitIds == {<<"s", "1">>, <<"s", "2">>}
Questions == <<(<<"Q", "1">>), (<<"Q", "2">>)>>
\* answers as format_answer returns them: stripped, not empty
AnswerTexts == {<<"y">>, <<"N", "/", "A">>, <<"0", "0", "7">>}

\* texts pandas.read_csv takes for a missing value (those the model writes)
NaTexts == {<<>>, <<"N", "/", "A">>, <<"N", "A">>}

AnswerRow(submit_id, question, answer) ==
    [submit_id |-> submit_id, form_name |-> <<"F">>, step_name |-> <<"S">>,
     question |-> question, answer |-> answer]

\* collect_answers: one row per answered question, in the order of the
\* questions, all under one submit_id
Submission(submit_id, given) ==
    LET asked == {n \in 1..Len(Questions) : given[n] # <<>>}
        RECURSIVE From(_)
        From(n) ==
            IF n > Len(Questions) THEN <<>>
            ELSE IF n \in asked
                 THEN <<AnswerRow(submit_id, Questions[n], given[n])>>
                         \o From(n + 1)
                 ELSE From(n + 1)
    IN  From(1)

\* the non-empty lists render_submit_button hands to save_answers_to_csv
Submissions ==
    {Submission(submit_id, given) :
        submit_id \in SubmitIds,
        given \in [1..Len(Questions) -> AnswerTexts \cup {<<>>}]}
      \ {<<>>}

\* a value of a DataFrame column
StrCell(text) == [kind |-> "str", text |-> text, num |-> 0]
IntCell(num) == [kind |-> "int", text |-> <<>>, num |-> num]
FloatCell(num) == [kind |-> "float", text |-> <<>>, num |-> num]
NaN == [kind |-> "nan", text |-> <<>>, num |-> 0]

\* a text of digits followed by ".0"
IsFloat(text) ==
    /\ Len(text) > 2
    /\ SubSeq(text, Len(text) - 1, Len(text)) = <<".", "0">>
    /\ IsInt(SubSeq(text, 1, Len(text) - 2))

ToFloat(text) ==
    IF IsInt(text) THEN ToInt(text)
    ELSE ToInt(SubSeq(text, 1, Len(text) - 2))

RECURSIVE IntText(_)
\* str(n) of a natural number
IntText(n) ==
    LET digit == CHOOSE c \in Digits : DigitValue(c) = n % 10
    IN  IF n < 10 THEN <<digit>> ELSE Append(IntText(n \div 10), digit)

\* read_csv on one column: missing values, then the narrowest of int64,
\* float64 and object that holds every other value
ReadColumn(texts) ==
    LET present == {n \in 1..Len(texts) : texts[n] \notin NaTexts}
        ints == \A n \in present : IsInt(texts[n])
        floats == \A n \in present : IsInt(texts[n]) \/ IsFloat(texts[n])
        whole == present = 1..Len(texts)
    IN  [n \in 1..Len(texts) |->
            IF n \notin present THEN NaN
            ELSE IF ints /\ whole THEN IntCell(ToInt(texts[n]))
            ELSE IF floats THEN FloatCell(ToFloat(texts[n]))
            ELSE StrCell(texts[n])]

\* pd.read_csv(csv_path)
ReadCsv(rows) ==
    LET column(name) == ReadColumn([n \in 1..Len(rows) |-> rows[n][name]])
    IN  [n \in 1..Len(rows) |-> [name \in Columns |-> column(name)[n]]]

\* pd.DataFrame(new_answers)
NewFrame(new_answers) ==
    [n \in 1..Len(new_answers) |->
        [name \in Columns |-> StrCell(new_answers[n][name])]]

KeyOf(row) == [name \in KeyColumns |-> row[name]]

RECURSIVE Kept(_, _)
\* the rows from position n on that no later row repeats the key of
Kept(frame, n) ==
    IF n > Len(frame) THEN <<>>
    ELSE IF \E m \in (n + 1)..Len(frame) : KeyOf(frame[m]) = KeyOf(frame[n])
         THEN Kept(frame, n + 1)
         ELSE <<frame[n]>> \o Kept(frame, n + 1)

\* drop_duplicates(subset=key, keep="last")
DropDuplicates(frame) == Kept(frame, 1)

\* what to_csv writes for a value
CellText(cell) ==
    CASE cell.kind = "str" -> cell.text
      [] cell.kind = "int" -> IntText(cell.num)
      [] cell.kind = "float" -> IntText(cell.num) \o <<".", "0">>
      [] cell.kind = "nan" -> <<>>

\* df_combined.to_csv(csv_path, index=False)
ToCsv(frame) ==
    [n \in 1..Len(frame) |-> [name \in Columns |-> CellText(frame[n][name])]]

\* save_answers_to_csv: the rows of the file after the call
SavedRows(file, new_answers) ==
    LET df_existing == IF file.exists THEN ReadCsv(file.rows) ELSE <<>>
        df_new == NewFrame(new_answers)
        df_combined == df_existing \o df_new
    IN  ToCsv(DropDuplicates(df_combined))

\* the rows a list of answers leaves as the latest of their keys
Latest(new_answers) ==
    {new_answers[n] : n \in
        {n \in 1..Len(new_answers) :
            \A m \in (n + 1)..Len(new_answers) :
               KeyOf(new_answers[m]) # KeyOf(new_answers[n])}}

\* render_submit_button: a submission is saved
SaveAnswers ==
    /\ \E new_answers \in Submissions :
          answers' =
             [exists |-> TRUE,
              rows |-> SavedRows(answers, new_answers),
              recent |->
                 {row \in answers.recent :
                     \A n \in 1..Len(new_answers) :
                        KeyOf(new_answers[n]) # KeyOf(row)}
                   \cup Latest(new_answers)]
    /\ UNCHANGED <<store, assistant, gen, session, call, race>>

NextCsv == SaveAnswers

SpecCsv == Init /\ [][NextCsv]_vars

\* ---------------------------------------------------------------- helpers
Ran(node) == \E i \in 1..Len(trace) : trace[i] = node

Runs(node) == Cardinality({i \in 1..Len(trace) : trace[i] = node})

\* the node that runs after the i-th node of the turn
Following(i) == IF Len(trace) > i THEN trace[i + 1] ELSE pc

Position(node) == CHOOSE i \in 1..Len(trace) : trace[i] = node

Heard(node) == node \in DOMAIN heard

TurnOver == pc \in {"finished", "raised", "idle"} /\ trace # <<>>

\* ----------------------------------------------------------------- claims

\* C1: form_editor runs only after, in the same turn, input_analyzer
\* classified the intent as edit, edit_suggester ran and
\* confirmation_handler set confirm_edit because the classified reply was
\* exactly yes; after any other classified reply the node that follows
\* confirmation_handler is llm_response.
C1_EditorOnlyAfterYes ==
    /\ (pc = "form_editor" \/ Ran("form_editor")) =>
          /\ SubSeq(trace, 1, 4) = <<"get_form_context", "input_analyzer",
                                     "edit_suggester", "confirmation_handler">>
          /\ state.analysis.intent = "edit"
          /\ state.confirm_edit
          /\ Heard("confirmation_handler")
          /\ Lower(Strip(heard["confirmation_handler"])) = <<"y", "e", "s">>
    /\ (Heard("confirmation_handler")
          /\ Lower(Strip(heard["confirmation_handler"])) # <<"y", "e", "s">>) =>
          /\ ~state.confirm_edit
          /\ Following(Position("confirmation_handler")) = "llm_response"

C1_Witness ==
    /\ Ran("form_editor")
    /\ pc = "llm_response"
    /\ heard["confirmation_handler"] = <<" ", "Y", "e", "s", "\n">>

\* C2: in a turn in which the intent is not edit, or the reply to the edit
\* suggestion is not classified yes, the persisted Form Documents are the
\* same after the turn as before it.
C2_NoEditorNoChange ==
    (TurnOver /\ (state.analysis.intent # "edit"
                    \/ ~Heard("confirmation_handler")
                    \/ Lower(Strip(heard["confirmation_handler"]))
                          # <<"y", "e", "s">>)) =>
        /\ ~Ran("form_editor")
        /\ store = store0

C2_Witness ==
    /\ pc = "idle"
    /\ Heard("confirmation_handler")
    /\ heard["confirmation_handler"] = <<"n", "o">>
    /\ result.errors = <<>>
    /\ store = store0

\* C3: the turn in which an edit suggestion is produced never writes the
\* Form Document; the write happens only in a later turn.
C3_ProposeTurnNeverWrites ==
    Heard("edit_suggester") => writes = 0 /\ store = store0

\* C4: when the text returned to form_editor does not decode as JSON, no
\* Form Store write occurs, the in-state form stays the loaded document,
\* form_already_edited is not set and the next node is llm_response; a
\* write occurs only with a decoded replacement document, which is then the
\* persisted one.
C4_UndecodableEditDiscarded ==
    /\ (Heard("form_editor") /\ ~heard["form_editor"].decodes) =>
          /\ writes = 0
          /\ store = store0
          /\ state.form = store0[state.form_id]
          /\ ~state.form_already_edited
          /\ Following(Position("form_editor")) = "llm_response"
          /\ pc = "idle" => result.answer # ""
    /\ writes > 0 =>
          /\ Heard("form_editor")
          /\ heard["form_editor"].decodes
          /\ heard["form_editor"].value \in JsonValues
          /\ store[state.form_id] = heard["form_editor"].value

C4_Witness ==
    /\ pc = "idle"
    /\ Heard("form_editor")
    /\ ~heard["form_editor"].decodes
    /\ result.answer = "reply"

\* C5: when an exception left the graph invocation, run_form_assist
\* returns the apology answer, the error message in errors, form_updated
\* false and a new_history that ends with the user message followed by the
\* assistant error message.
C5_ExceptionBecomesApology ==
    (pc = "idle" /\ exc # "") =>
        /\ result.answer =
              "I apologize, but I encountered an error: " \o exc
                  \o ". Please try again."
        /\ \E i \in 1..Len(result.errors) : result.errors[i] = exc
        /\ result.form_updated = FALSE
        /\ Len(result.new_history) = Len(args.messages) + 2
        /\ SubSeq(result.new_history, 1, Len(args.messages)) = args.messages
        /\ result.new_history[Len(result.new_history) - 1] =
              [role |-> "user", content |-> args.user_input]
        /\ result.new_history[Len(result.new_history)] =
              [role |-> "assistant", content |-> "Error: " \o exc]

C5_Witness ==
    /\ pc = "idle"
    /\ exc = ServiceError
    /\ Len(args.messages) = 1
    /\ result.errors = <<ServiceError>>

\* C6 as stated: a completion-service error in any node ends the turn at
\* that node and the turn returns the apology answer with an error record.
C6_EveryServiceErrorPropagates ==
    failed # {} =>
        /\ pc \in {"raised", "idle"}
        /\ trace[Len(trace)] \in failed
        /\ exc = ServiceError
        /\ pc = "idle" =>
              /\ result.answer =
                    "I apologize, but I encountered an error: "
                        \o ServiceError \o ". Please try again."
              /\ result.errors # <<>>

\* C6 amended: a completion-service error in edit_suggester,
\* confirmation_handler or llm_response is not retried, ends the turn at
\* that node and returns the apology answer with an error record; one in
\* input_analyzer, question_suggester or form_editor is caught inside the
\* node, which runs once, leaves its safe default and is followed by the
\* next node of the graph.
C6_ServiceErrorPropagatesOrDefaults ==
    /\ \A node \in failed : Runs(node) = 1
    /\ (failed \cap {"edit_suggester", "confirmation_handler",
                     "llm_response"} # {}) =>
          /\ pc \in {"raised", "idle"}
          /\ trace[Len(trace)] \in failed
          /\ exc = ServiceError
          /\ pc = "idle" =>
                /\ result.answer =
                      "I apologize, but I encountered an error: "
                          \o ServiceError \o ". Please try again."
                /\ result.errors # <<>>
    /\ "input_analyzer" \in failed =>
          /\ state.analysis.intent = "unclear"
          /\ Following(Position("input_analyzer")) = "question_suggester"
    /\ "question_suggester" \in failed =>
          /\ state.suggested_questions = <<>>
          /\ Following(Position("question_suggester")) = "llm_response"
    /\ "form_editor" \in failed =>
          /\ store = store0
          /\ ~state.form_already_edited
          /\ Following(Position("form_editor")) = "llm_response"

C6_Witness ==
    /\ pc = "idle"
    /\ failed = {"input_analyzer", "llm_response"}
    /\ result.errors = <<ServiceError>>

\* C7: after input_analyzer the intent is one of edit, suggest_questions,
\* unclear; output that fails the intent schema gives unclear with the
\* reason 'Failed to parse intent' and the turn goes on; the next node is
\* edit_suggester exactly when the intent is edit, else question_suggester.
C7_IntentAlwaysClassified ==
    Ran("input_analyzer") =>
        /\ state.analysis.intent \in {"edit", "suggest_questions", "unclear"}
        /\ (Heard("input_analyzer")
              /\ (~heard["input_analyzer"].wellformed
                    \/ heard["input_analyzer"].intent
                          \notin {"edit", "suggest_questions", "unclear"})) =>
              state.analysis =
                  [intent |-> "unclear", reason |-> "Failed to parse intent"]
        /\ (Heard("input_analyzer")
              /\ heard["input_analyzer"].wellformed
              /\ heard["input_analyzer"].intent
                    \in {"edit", "suggest_questions", "unclear"}) =>
              state.analysis.intent = heard["input_analyzer"].intent
        /\ Following(Position("input_analyzer")) =
              (IF state.analysis.intent = "edit"
               THEN "edit_suggester" ELSE "question_suggester")

C7_Witness ==
    /\ pc = "question_suggester"
    /\ Heard("input_analyzer")
    /\ heard["input_analyzer"].wellformed
    /\ heard["input_analyzer"].intent = "delete"
    /\ state.analysis.reason = "Failed to parse intent"

\* C8: llm_response uses the 'change applied' template when
\* form_already_edited is set, and then clears it; otherwise the 'please
\* confirm' template when an edit suggestion exists, needs_confirmation is
\* set and confirmation_checked is not, and then clears both flags;
\* otherwise the conversational template, changing no flag.
C8_TemplateByPriority ==
    [][(pc = "llm_response" /\ tmpl' # "none") =>
        /\ tmpl = "none"
        /\ state.form_already_edited =>
              /\ tmpl' = "edited"
              /\ ~state'.form_already_edited
              /\ state'.needs_confirmation = state.needs_confirmation
              /\ state'.confirmation_checked = state.confirmation_checked
        /\ (~state.form_already_edited
              /\ state.suggested_edit_message # ""
              /\ state.needs_confirmation
              /\ ~state.confirmation_checked) =>
              /\ tmpl' = "confirm"
              /\ ~state'.needs_confirmation
              /\ ~state'.confirmation_checked
              /\ ~state'.form_already_edited
        /\ (~state.form_already_edited
              /\ ~(state.suggested_edit_message # ""
                     /\ state.needs_confirmation
                     /\ ~state.confirmation_checked)) =>
              /\ tmpl' = "chat"
              /\ SessionFields(state') = SessionFields(state)]_vars

C8_Witness ==
    /\ tmpl = "confirm"
    /\ pc = "finished"
    /\ state.suggested_edit_message = "edit summary"
    /\ ~state.needs_confirmation
    /\ ~state.confirmation_checked

\* C9: at the end of every turn in which confirmation_handler ran,
\* needs_confirmation and confirmation_checked are both false.
C9_ConfirmationResetAtTurnEnd ==
    (pc \in {"finished", "idle"} /\ Heard("confirmation_handler")) =>
        /\ ~state.needs_confirmation
        /\ ~state.confirmation_checked

\* C10: a turn with the (form_id, session_id) of the previous turn starts
\* with the intent classification, suggested edit message, suggested
\* questions and confirmation flags the previous turn left.
C10_SessionStateCarriedOver ==
    (pc = "get_form_context"
        /\ last.form_id = args.form_id
        /\ last.session_id = args.session_id) =>
        SessionFields(state) = last.fields

\* C11: within one turn the Form Store is read exactly once, by
\* get_form_context before any other node, and written at most once, and
\* only by form_editor.
C11_ReadOnceWriteAtMostOnce ==
    /\ pc = "get_form_context" => reads = 0 /\ trace = <<>>
    /\ trace # <<>> =>
          /\ trace[1] = "get_form_context"
          /\ Runs("get_form_context") = 1
          /\ reads = 1
    /\ writes <= 1
    /\ (writes > 0 \/ store # store0) =>
          /\ Runs("form_editor") = 1
          /\ writes = 1

C11_Witness ==
    /\ pc = "idle"
    /\ reads = 1
    /\ writes = 1
    /\ store # store0

GraphPaths ==
    { <<"get_form_context", "input_analyzer", "edit_suggester",
        "confirmation_handler", "form_editor", "llm_response">>,
      <<"get_form_context", "input_analyzer", "edit_suggester",
        "confirmation_handler", "llm_response">>,
      <<"get_form_context", "input_analyzer", "question_suggester",
        "llm_response">> }

IsPrefix(s, t) == Len(s) <= Len(t) /\ SubSeq(t, 1, Len(s)) = s

Sequential ==
    /\ \E path \in GraphPaths : IsPrefix(trace, path)
    /\ \A i, j \in 1..Len(trace) : trace[i] = trace[j] => i = j
    /\ Cardinality(DOMAIN heard) + Cardinality(failed) <= Len(trace)
    /\ \A node \in DOMAIN heard \cup failed : Ran(node)
    /\ (pc \in {"finished", "idle"} /\ exc = "" /\ trace # <<>>) =>
          /\ trace \in GraphPaths
          /\ Runs("llm_response") = 1
          /\ trace[Len(trace)] = "llm_response"

\* C12: every turn terminates and is strictly sequential: the nodes that
\* ran form a prefix of one path of the acyclic graph, no node runs twice,
\* no node makes more than one completion call, and a turn without an
\* exception ends after llm_response ran exactly once.
C12_SequentialAndTerminates ==
    /\ []Sequential
    /\ (pc = "get_form_context") ~> (pc = "idle")

C12_Witness ==
    /\ pc = "idle"
    /\ exc = ""
    /\ Len(trace) = 6
    /\ Cardinality(DOMAIN heard) = 5

\* C13: message history is append-only: the messages the turn was called
\* with stay a prefix of the history, and a turn that completes without an
\* exception has appended exactly one assistant message, the reply of
\* llm_response, as the last element.
C13_HistoryAppendOnly ==
    /\ pc # "idle" => IsPrefix(args.messages, state.messages)
    /\ pc = "finished" =>
          /\ Heard("llm_response")
          /\ state.messages =
                Append(args.messages,
                       [role |-> "assistant",
                        content |-> StripReply(heard["llm_response"])])

\* ------------------------------------------- claims about the generation
GenRuns(task) ==
    Cardinality({i \in 1..Len(gen.ran) : gen.ran[i] = task})

GenPosition(task) == CHOOSE i \in 1..Len(gen.ran) : gen.ran[i] = task

\* task a ran, and ran before task b
RanBefore(a, b) ==
    /\ GenRuns(a) = 1
    /\ GenRuns(b) = 1
    /\ GenPosition(a) < GenPosition(b)

GeneratorOf(evaluator) ==
    CHOOSE g \in Generators : GeneratorField(g) = EvaluatedField(evaluator)

\* agent_form.invoke returned
GraphReturned ==
    \/ gen.phase \in {"invoked", "returned", "saved", "shown"}
    \/ gen.exc = JsonDecodeError

\* State after the three generation nodes, for the responses of the request
JoinedState ==
    [user_prompt |-> gen.prompt,
     form_description |-> GeneratedText["generate_description"],
     form_steps |-> GeneratedText["generate_steps"],
     step_questions |-> GeneratedText["generate_questions"],
     final_form |-> <<>>]

C15_InterleavingIndependent ==
    /\ Runnable("generate_final_form") => gen.state = JoinedState
    /\ GenRuns("generate_final_form") = 1 =>
          gen.final_input = FinalInput(JoinedState)
    /\ gen.phase = "invoked" =>
          gen.state = [JoinedState EXCEPT !.final_form = gen.resp.final]

C15_Witness ==
    /\ Runnable("generate_final_form")
    /\ gen.ran[1] = "generate_steps"
    /\ gen.ran[2] = "generate_questions"
    /\ gen.ran[4] = "evaluate_questions"
    /\ gen.state = JoinedState

\* C16: for every combination of grades, once the three evaluators have
\* returned the run is at generate_final_form and no generator runs again;
\* the evaluators leave user_prompt and the three generated fields as the
\* generators wrote them; the aggregation input is the prompt and the three
\* raw outputs.
C16_EvaluationNeverGates ==
    /\ \A g \in Generators : GenRuns(g) <= 1
    /\ (\E e \in Evaluators : GenRuns(e) = 1) => 
          /\ gen.state.user_prompt = JoinedState.user_prompt
          /\ gen.state.form_description = JoinedState.form_description
          /\ gen.state.form_steps = JoinedState.form_steps
          /\ gen.state.step_questions = JoinedState.step_questions
    /\ ((\A e \in Evaluators : GenRuns(e) = 1) /\ gen.exc # ServiceError) =>
          \/ Runnable("generate_final_form")
          \/ GenRuns("generate_final_form") = 1
    /\ GenRuns("generate_final_form") = 1 =>
          gen.final_input =
             [user_prompt |-> gen.prompt,
              form_description |-> GeneratedText["generate_description"],
              form_steps |-> GeneratedText["generate_steps"],
              step_questions |-> GeneratedText["generate_questions"]]

C16_Witness ==
    /\ gen.phase = "invoked"
    /\ \A e \in Evaluators : gen.resp.grades[e] = "unacceptable"
    /\ GenRuns("generate_final_form") = 1
    /\ Len(gen.ran) = 7

\* a Form Document content: steps non-empty, every question type known
ValidForm(value) ==
    /\ value.shape = "form"
    /\ value.steps # <<>>
    /\ \A i \in 1..Len(value.steps) :
          \A j \in 1..Len(value.steps[i].step_questions) :
             value.steps[i].step_questions[j].question_type \in QuestionTypes

\* the aggregation output, fences stripped, parses as a Form Document
ParsesAsForm(text) ==
    /\ Loads(StripFences(text))
    /\ ValidForm(JsonLoads(StripFences(text)))

\* C17: whatever run_agent_form returns is a Form Document content with
\* non-empty steps and known question types, and an aggregation output that
\* does not parse as one makes the run raise.
C17_ReturnsFormOrRaises ==
    /\ gen.phase = "returned" => ValidForm(gen.result)
    /\ (gen.phase \in {"returned", "raised"} /\ gen.exc # ServiceError
          /\ ~ ParsesAsForm(gen.state.final_form)) => gen.phase = "raised"

\* C18: a request writes at most once; a run that raised wrote nothing and
\* created no file; a run that returned wrote exactly one new document,
\* carrying the generated id, the creation time and the returned result.
C18_OneWritePerSuccess ==
    /\ gen.written <= 1
    /\ gen.phase \in {"raised", "failed"} =>
          gen.written = 0 /\ DOMAIN store = {"form_a"}
    /\ gen.phase \in {"saved", "shown"} =>
          /\ gen.written = 1
          /\ gen.saved \in DOMAIN store \ {"form_a"}
          /\ \E created_at \in Timestamps :
                store[gen.saved] =
                   SavedDocument(gen.saved, created_at, gen.result)

\* ------------------------------------------------ claims about documents
\* the steps of old that are still in new appear in new in the order of old
KeepsOrder(old, new) ==
    \A i, j \in 1..Len(old) :
       \A p, q \in 1..Len(new) :
          (i < j /\ new[p] = old[i] /\ new[q] = old[j]) => p < q

\* C19: the document stored under a form_id is an object that carries
\* that form_id, after any sequence of turns.
C19_FormIdImmutable ==
    \A id \in DOMAIN store :
       store[id].shape = "object" /\ store[id].form_id = id

\* C20: the steps a document had when a turn started are, after the
\* turn's edit, in the same relative order in the stored document.
C20_StepOrderPreserved ==
    \A id \in DOMAIN store0 :
       KeepsOrder(store0[id].form_content.steps, store[id].form_content.steps)

\* --------------------------------------------- claims about the result
\* C26: a turn that returned normally reports form_updated exactly when
\* form_editor wrote the document during the turn.
C26_FormUpdatedIffWritten ==
    (pc = "idle" /\ trace # <<>> /\ exc = "") =>
        (result.form_updated <=> writes = 1)

\* C27: when the turn returned the error result, the store is what it was
\* when the turn started.
C27_ErrorLeavesDocument ==
    (pc = "idle" /\ trace # <<>> /\ exc # "") =>
        /\ result.form_updated = FALSE
        /\ result.errors # <<>>
        /\ store = store0

\* C28: in a turn in which edit_suggester returned a non-empty suggestion
\* and the form was not edited, the template llm_response selects is the
\* confirmation request.
C28_SuggestionAsksToConfirm ==
    (/\ Heard("edit_suggester")
     /\ Ran("llm_response")
     /\ tmpl # "none"
     /\ writes = 0) =>
        (heard["edit_suggester"] # "" => tmpl = "confirm")

\* ------------------------------------------------ claims about the page
Parsed == call.fn = "parse_list_type_example"

\* the options a text splits into when only the delimiters cut it
CutOnDelimiters(chars) == Options(SplitRuns(chars, ListDelims))

\* the maximal stretches of text without a delimiter that are not blank,
\* as pairs of first and last position
Stretches(text) ==
    {p \in (1..Len(text)) \X (1..Len(text)) :
        /\ p[1] <= p[2]
        /\ \A k \in p[1]..p[2] : text[k] \notin ListDelims
        /\ p[1] = 1 \/ text[p[1] - 1] \in ListDelims
        /\ p[2] = Len(text) \/ text[p[2] + 1] \in ListDelims
        /\ \E k \in p[1]..p[2] : ~ IsSpace(text[k])}

\* the stretch with n - 1 stretches before it
Stretch(text, n) ==
    CHOOSE p \in Stretches(text) :
        Cardinality({q \in Stretches(text) : q[1] < p[1]}) = n - 1

\* C24 as stated: the options are the pieces of the input between runs of
\* newline, comma, semicolon, slash and backslash, trimmed, the empty ones
\* dropped, in order.
C24_SplitsOnDelimiters ==
    (Parsed /\ call.arg.isstr) => call.ret = CutOnDelimiters(call.arg.chars)

\* C24 amended: every backslash followed by n is first replaced by a
\* newline; the options are then the non-blank stretches between runs of
\* delimiters, trimmed, in order; a value that is not a str and a blank
\* text give no option; no option is empty or contains a delimiter.
C24_SplitsAfterUnescaping ==
    Parsed =>
        LET text == ReplaceEscaped(call.arg.chars)
        IN  /\ ~ call.arg.isstr => call.ret = <<>>
            /\ (\A k \in 1..Len(call.arg.chars) :
                   IsSpace(call.arg.chars[k])) => call.ret = <<>>
            /\ Len(call.ret) = Cardinality(Stretches(text))
            /\ \A n \in 1..Len(call.ret) :
                  /\ call.ret[n] # <<>>
                  /\ \A k \in 1..Len(call.ret[n]) :
                        call.ret[n][k] \notin ListDelims
                  /\ call.ret[n] =
                        Strip(SubSeq(text, Stretch(text, n)[1],
                                     Stretch(text, n)[2]))
            /\ call.arg.chars = DocExample =>
                  call.ret = <<<<"A">>, <<"B">>, <<"C">>, <<"D">>, <<"E">>>>
            /\ call.arg.chars = EscapedExample =>
                  call.ret = <<<<"A">>, <<"B">>>>

C24_Witness ==
    /\ Parsed
    /\ call.arg.chars = <<"A", "\\", "n", "n">>
    /\ call.ret = <<<<"A">>, <<"n">>>>

Slid == call.fn = "render_slider_rating"

\* the text up to its first separator
FirstToken(text) ==
    LET cut == {k \in 1..Len(text) : text[k] \in SliderSeps}
    IN  IF cut = {} THEN text
        ELSE SubSeq(text, 1, (CHOOSE k \in cut : \A j \in cut : k <= j) - 1)

\* C25: for an example string, trimmed: two integers joined by a hyphen
\* give (a, b); one integer gives (a, a + 9); an empty example and one
\* whose first token is not an integer give (1, 5); every call returns a
\* range.
C25_SliderRange ==
    Slid =>
        LET text == Strip(call.arg.chars)
        IN  /\ call.ret.min \in Nat /\ call.ret.max \in Nat
            /\ IsInt(text) =>
                  /\ call.ret.min = ToInt(text)
                  /\ call.ret.max = ToInt(text) + 9
            /\ \A k \in 1..Len(text) :
                  (/\ text[k] = "-"
                   /\ IsInt(SubSeq(text, 1, k - 1))
                   /\ IsInt(SubSeq(text, k + 1, Len(text)))) =>
                      /\ call.ret.min = ToInt(SubSeq(text, 1, k - 1))
                      /\ call.ret.max = ToInt(SubSeq(text, k + 1, Len(text)))
            /\ (call.arg.chars = <<>> \/ ~ IsInt(FirstToken(text))) =>
                  call.ret.min = 1 /\ call.ret.max = 5
            /\ call.arg.chars = <<"1", "-", "5">> =>
                  call.ret.min = 1 /\ call.ret.max = 5
            /\ call.arg.chars = <<"3">> =>
                  call.ret.min = 3 /\ call.ret.max = 12
            /\ call.arg.chars = <<"a", "b", "c">> =>
                  call.ret.min = 1 /\ call.ret.max = 5

C25_Witness ==
    /\ Slid
    /\ call.arg.chars = <<" ", "1", "5">>
    /\ call.ret.min = 15
    /\ call.ret.max = 24

\* the questions of the document the page last drew, by step and position
Drawn(i, j) == StepsOf(session.form_result)[i].step_questions[j]

DrawnAt ==
    {p \in (1..2) \X (1..2) :
        /\ p[1] <= Len(StepsOf(session.form_result))
        /\ p[2] <= Len(StepsOf(session.form_result)[p[1]].step_questions)}

Supported(type) == type \in QuestionTypes

SupportedLabels == {TypeLabels[n] : n \in 1..Len(TypeLabels)}

\* C21: a question whose type is outside the enumeration gets no input
\* widget in the preview and is reported as unsupported; the editor does
\* not show a supported type's label for it, and a Save Step that left
\* its type alone does not store a supported type for it.
C21_UnknownTypeNeverAccepted ==
    /\ session.phase = "shown" =>
          \A p \in DrawnAt :
             ~ Supported(Drawn(p[1], p[2]).question_type) =>
                /\ session.widgets[p[1]][p[2]].kind = "none"
                /\ session.widgets[p[1]][p[2]].warning
                      = "Unsupported input type"
                /\ session.shown[p[1]][p[2]] \notin SupportedLabels
    /\ session.phase = "saved" =>
          LET k == session.saved_step
              old == StepsOf(session.before)[k].step_questions
              new == StepsOf(store[FileOf(session.form_loaded_name)])[k]
                        .step_questions
          IN  \A j \in 1..Len(old) :
                 (/\ ~ Supported(old[j].question_type)
                  /\ session.choices[j].type = "keep") =>
                     ~ Supported(new[j].question_type)

\* the range an example string encodes
Encoded(example) == SliderRange(StrExample(example))

\* C30: the slider of a slider_rating question in the preview has the
\* range its question_example encodes, and its min is at most its max.
C30_PreviewSliderUsesExample ==
    session.phase # "idle" =>
       \A p \in DrawnAt :
          LET question == Drawn(p[1], p[2])
              example == Get(question, "question_example",
                             Get(question, "question_description", <<>>))
              widget == session.widgets[p[1]][p[2]]
          IN  widget.kind = "render_slider_rating" =>
                 /\ widget.range.min = Encoded(example).min
                 /\ widget.range.max = Encoded(example).max
                 /\ widget.range.min <= widget.range.max

\* C29: after Save Step k the stored document differs from the one stored
\* before only in the step_questions of step k: its other keys, the other
\* keys of form_content, the number of steps, every other step and the
\* other keys of step k are the same; step k has as many questions, each
\* at its place with its description, example and, unless retyped, its
\* text; and every stored question_type of step k is in the enumeration.
C29_SaveStepFrame ==
    session.phase = "saved" =>
       LET k == session.saved_step
           old == session.before
           new == store[FileOf(session.form_loaded_name)]
           olds == StepsOf(old)
           news == StepsOf(new)
       IN  /\ DOMAIN new = DOMAIN old
           /\ \A f \in DOMAIN old \ {"form_content"} : new[f] = old[f]
           /\ DOMAIN new.form_content = DOMAIN old.form_content
           /\ \A f \in DOMAIN old.form_content \ {"steps"} :
                 new.form_content[f] = old.form_content[f]
           /\ Len(news) = Len(olds)
           /\ \A i \in 1..Len(olds) : i # k => news[i] = olds[i]
           /\ DOMAIN news[k] = DOMAIN olds[k]
           /\ \A f \in DOMAIN olds[k] \ {"step_questions"} :
                 news[k][f] = olds[k][f]
           /\ Len(news[k].step_questions) = Len(olds[k].step_questions)
           /\ \A j \in 1..Len(olds[k].step_questions) :
                 LET was == olds[k].step_questions[j]
                     is == news[k].step_questions[j]
                 IN  /\ is.question_description
                           = Get(was, "question_description", <<>>)
                     /\ is.question_example
                           = Get(was, "question_example", <<>>)
                     /\ session.choices[j].text = "keep" =>
                           is.question_text = was.question_text
                     /\ (session.choices[j].type = "keep"
                           /\ Supported(was.question_type)) =>
                           is.question_type = was.question_type
                     /\ Supported(is.question_type)

C29_Witness ==
    /\ session.phase = "saved"
    /\ session.saved_step = 2
    /\ StepsOf(session.before)[1] = StepSlider
    /\ StepsOf(session.before)[2] = StepBad
    /\ store[FileOf(session.form_loaded_name)] # session.before

\* the write that landed last
LastWrite == race.log[Len(race.log)]

C23_OneRowPerKeyLatestAnswer ==
    answers.exists =>
       /\ \A n, m \in 1..Len(answers.rows) :
             n # m => KeyOf(answers.rows[n]) # KeyOf(answers.rows[m])
       /\ \A row \in answers.recent :
             \E n \in 1..Len(answers.rows) : answers.rows[n] = row
       /\ \A n \in 1..Len(answers.rows) : answers.rows[n] \in answers.recent

====
